---- MODULE Spec2Model ----
(***************************************************************************)
(* Speda backend: the Resource Services (tasks, calendar events, emails),  *)
(* their HTTP routes with the `confirmed` query parameter, and the         *)
(* function dispatcher used by the streamed chat turn.                     *)
(*                                                                         *)
(* Persisted tables are functions from the ids of the stored rows to the   *)
(* rows.  Timestamps are values of a logical clock: every call that writes *)
(* a row reads datetime.utcnow() once, which is the next clock value.      *)
(* Columns that no operation below ever reads or writes differently from   *)
(* `title` (notes, due_date, description, location, all_day, mailbox,      *)
(* cc_address, created_at) are left out of the rows.                       *)
(***************************************************************************)
EXTENDS Integers, Sequences, FiniteSets, TLC

\* ------------------------------------------------------------------ bounds
MaxTasks == 1
MaxEvents == 1
MaxEmails == 1
MaxClock == 3
MaxGTasks == 2
MaxDeltas == 2
MaxCalls == 2
MaxHour == 3

MaxMessages == 3

MaxMemories == 2

\* ------------------------------------------------------- program constants
PreviewLimit == 200
FactEvery == 10

VARIABLES tasks, events, emails, now, outbox, last,
          gtasks, token, fx,
          pc, wire, follow_up, sse, full_response, function_result, dispatched,
          session, durable, title, failure, facts,
          memories, inflight

vars == <<tasks, events, emails, now, outbox, last, gtasks, token, fx,
          pc, wire, follow_up, sse, full_response, function_result, dispatched,
          session, durable, title, failure, facts, memories, inflight>>

\* the local tables and their history / the Google account the dispatcher acts on
dbvars == <<tasks, events, emails, now, outbox, last>>
gvars == <<gtasks, token, fx>>

\* the committed Memory rows, and the requests that run side by side, each in its
\* own session: where each one stands and what it has read and written so far
memvars == <<memories, inflight>>

\* one streamed chat turn: where chat_stream / generate stands, the upstream lines
\* read so far, the events sent to the client, generate's locals, the dispatcher
\* invocations, the request's database session and what is committed, the
\* conversation's title, the place an exception was raised, the fact extraction
turnvars == <<pc, wire, follow_up, sse, full_response, function_result, dispatched,
              session, durable, title, failure, facts>>

NoTime == 0

Max(S) == IF S = {} THEN 0 ELSE CHOOSE m \in S : \A x \in S : x <= m

Min2(a, b) == IF a <= b THEN a ELSE b

\* sqlite rowid allocation: one more than the largest id stored
NextId(table) == Max(DOMAIN table) + 1

Without(table, id) == [k \in (DOMAIN table) \ {id} |-> table[k]]

\* ids a caller may name: every id a row can have, and one no row ever has
TaskIds == 1..(MaxTasks + 1)
EventIds == 1..(MaxEvents + 1)
EmailIds == 1..(MaxEmails + 1)
GTaskIds == 1..(MaxGTasks + 1)

\* request bodies
TaskCreate == {[title |-> "Pay rent"]}
TaskUpdate == {[title |-> "Call bank"], [status |-> "completed"]}
EventCreate == {[title |-> "Standup", start_time |-> 10, end_time |-> 11]}
EventUpdate == {[title |-> "Review"], [start_time |-> 9]}
EmailDraft == {[to_address |-> "a@x.org", subject |-> "Hi", body |-> PreviewLimit],
               [to_address |-> "b@x.org", subject |-> "Re", body |-> PreviewLimit + 1]}

\* the `confirmed` query parameter as it arrives on the wire
ConfirmedParams == {"true", "false", "omitted"}

\* fastapi Query(default): the default stands in for an omitted parameter
QueryBool(param, default) == IF param = "omitted" THEN default ELSE param = "true"

NoPayload == [none |-> TRUE]
NoAction == [type |-> "none", payload |-> NoPayload]
Action(type, payload) == [type |-> type, payload |-> payload]


\* a service call's outcome: the table after the call's flush, whether a row was
\* found / the success flag returned, the Action returned, whether the call
\* read the clock to stamp a row, and the exception it raised ("" for none)
Outcome(table, ok, action, tick, raised) ==
  [table |-> table, ok |-> ok, action |-> action, tick |-> tick, raised |-> raised,
   invoked |-> {}, delivered |-> <<>>]

HalfHour == 30
MinutesPerHour == 60
SecondsPerMinute == 60
SecondsPerHour == 3600

max_context_messages == 20

\* ------------------------------------------------------------ TaskService
TaskResponse(id, task) ==
  [id |-> id, title |-> task.title, status |-> task.status, updated_at |-> task.updated_at]

create_task(task_data) ==
  LET id == NextId(tasks)
      task == [title |-> task_data.title, status |-> "pending", updated_at |-> now + 1]
  IN Outcome(tasks @@ (id :> task), TRUE,
             Action("task_created", TaskResponse(id, task)), TRUE, "")

update_task(task_id, task_data) ==
  IF task_id \notin DOMAIN tasks
  THEN Outcome(tasks, FALSE, NoAction, FALSE, "")
  ELSE LET old == tasks[task_id]
           task == [title |-> IF "title" \in DOMAIN task_data
                              THEN task_data.title ELSE old.title,
                    status |-> IF "status" \in DOMAIN task_data
                               THEN task_data.status ELSE old.status,
                    updated_at |-> now + 1]
       IN Outcome([tasks EXCEPT ![task_id] = task], TRUE,
                  Action("task_updated", TaskResponse(task_id, task)), TRUE, "")

complete_task(task_id, confirmed) ==
  IF ~confirmed
  THEN Outcome(tasks, FALSE,
               Action("confirmation_required", [task_id |-> task_id, action |-> "complete"]),
               FALSE, "")
  ELSE IF task_id \notin DOMAIN tasks
  THEN Outcome(tasks, FALSE, NoAction, FALSE, "")
  ELSE LET task == [tasks[task_id] EXCEPT !.status = "completed", !.updated_at = now + 1]
       IN Outcome([tasks EXCEPT ![task_id] = task], TRUE,
                  Action("task_completed", TaskResponse(task_id, task)), TRUE, "")

\* delete_task with the confirmation check left out
delete_task_unguarded(task_id, confirmed) ==
  IF task_id \notin DOMAIN tasks
  THEN Outcome(tasks, FALSE, Action("error", [task_id |-> task_id]), FALSE, "")
  ELSE Outcome(Without(tasks, task_id), TRUE,
               Action("task_deleted", [task_id |-> task_id]), FALSE, "")

delete_task(task_id, confirmed) ==
  IF task_id \notin DOMAIN tasks
  THEN Outcome(tasks, FALSE, Action("error", [task_id |-> task_id]), FALSE, "")
  ELSE IF ~confirmed
  THEN Outcome(tasks, FALSE,
               Action("confirmation_required",
                      [task_id |-> task_id, action |-> "delete",
                       title |-> tasks[task_id].title]),
               FALSE, "")
  ELSE Outcome(Without(tasks, task_id), TRUE,
               Action("task_deleted", [task_id |-> task_id]), FALSE, "")

reopen_task(task_id) ==
  IF task_id \notin DOMAIN tasks
  THEN Outcome(tasks, FALSE, NoAction, FALSE, "")
  ELSE LET task == [tasks[task_id] EXCEPT !.status = "pending", !.updated_at = now + 1]
       IN Outcome([tasks EXCEPT ![task_id] = task], TRUE,
                  Action("task_updated", TaskResponse(task_id, task)), TRUE, "")

\* -------------------------------------------------------- CalendarService
EventResponse(id, event) ==
  [id |-> id, title |-> event.title, start_time |-> event.start_time,
   end_time |-> event.end_time, updated_at |-> event.updated_at]

\* the overlap test with the first comparison made inclusive
check_conflicts_inclusive(start_time, end_time, exclude_id) ==
  {id \in DOMAIN events :
     /\ events[id].start_time <= end_time
     /\ events[id].end_time > start_time
     /\ (exclude_id # 0 => id # exclude_id)}

\* ids of the stored events that overlap [start_time, end_time); exclude_id = 0
\* stands for None (`if exclude_id:` treats both alike)
check_conflicts(start_time, end_time, exclude_id) ==
  {id \in DOMAIN events :
     /\ events[id].start_time < end_time
     /\ events[id].end_time > start_time
     /\ (exclude_id # 0 => id # exclude_id)}

create_event(event_data) ==
  LET conflicts == check_conflicts(event_data.start_time, event_data.end_time, 0)
      id == NextId(events)
      event == [title |-> event_data.title, start_time |-> event_data.start_time,
                end_time |-> event_data.end_time, updated_at |-> now + 1]
  IN Outcome(events @@ (id :> event), TRUE,
             Action("event_created",
                    [event |-> EventResponse(id, event), conflicts |-> conflicts]),
             TRUE, "")

\* update_event refusing an update that would overlap another event
update_event_blocking(event_id, event_data) ==
  IF event_id \notin DOMAIN events
  THEN Outcome(events, FALSE, NoAction, FALSE, "")
  ELSE LET old == events[event_id]
           new_start == IF "start_time" \in DOMAIN event_data
                        THEN event_data.start_time ELSE old.start_time
           new_end == IF "end_time" \in DOMAIN event_data
                      THEN event_data.end_time ELSE old.end_time
           conflicts == IF "start_time" \in DOMAIN event_data \/ "end_time" \in DOMAIN event_data
                        THEN check_conflicts(new_start, new_end, event_id)
                        ELSE {}
           event == IF conflicts # {} THEN [old EXCEPT !.updated_at = now + 1]
                    ELSE [title |-> IF "title" \in DOMAIN event_data
                                    THEN event_data.title ELSE old.title,
                          start_time |-> new_start, end_time |-> new_end,
                          updated_at |-> now + 1]
       IN Outcome([events EXCEPT ![event_id] = event], TRUE,
                  Action("event_updated",
                         [event |-> EventResponse(event_id, event), conflicts |-> conflicts]),
                  TRUE, "")

update_event(event_id, event_data) ==
  IF event_id \notin DOMAIN events
  THEN Outcome(events, FALSE, NoAction, FALSE, "")
  ELSE LET old == events[event_id]
           new_start == IF "start_time" \in DOMAIN event_data
                        THEN event_data.start_time ELSE old.start_time
           new_end == IF "end_time" \in DOMAIN event_data
                      THEN event_data.end_time ELSE old.end_time
           conflicts == IF "start_time" \in DOMAIN event_data \/ "end_time" \in DOMAIN event_data
                        THEN check_conflicts(new_start, new_end, event_id)
                        ELSE {}
           event == [title |-> IF "title" \in DOMAIN event_data
                               THEN event_data.title ELSE old.title,
                     start_time |-> new_start, end_time |-> new_end,
                     updated_at |-> now + 1]
       IN Outcome([events EXCEPT ![event_id] = event], TRUE,
                  Action("event_updated",
                         [event |-> EventResponse(event_id, event), conflicts |-> conflicts]),
                  TRUE, "")

\* delete_event with the confirmation check left out
delete_event_unguarded(event_id, confirmed) ==
  IF event_id \notin DOMAIN events
  THEN Outcome(events, FALSE, Action("error", [event_id |-> event_id]), FALSE, "")
  ELSE Outcome(Without(events, event_id), TRUE,
               Action("event_deleted", [event_id |-> event_id]), FALSE, "")

delete_event(event_id, confirmed) ==
  IF event_id \notin DOMAIN events
  THEN Outcome(events, FALSE, Action("error", [event_id |-> event_id]), FALSE, "")
  ELSE IF ~confirmed
  THEN Outcome(events, FALSE,
               Action("confirmation_required",
                      [event_id |-> event_id, action |-> "delete",
                       title |-> events[event_id].title,
                       start_time |-> events[event_id].start_time]),
               FALSE, "")
  ELSE Outcome(Without(events, event_id), TRUE,
               Action("event_deleted", [event_id |-> event_id]), FALSE, "")

\* datetimes of the slot search are counted in seconds
minute(t) == (t \div SecondsPerMinute) % MinutesPerHour

second(t) == t % SecondsPerMinute

\* datetime.replace(minute=m, second=0, microsecond=0)
replace(t, m) == (t \div SecondsPerHour) * SecondsPerHour + m * SecondsPerMinute

\* "Round up to next 30-minute mark"
round_up(start_from) ==
  IF minute(start_from) % HalfHour # 0
  THEN LET r == replace(start_from,
                        ((minute(start_from) \div HalfHour + 1) * HalfHour) % MinutesPerHour)
       IN IF minute(r) = 0 THEN r + SecondsPerHour ELSE r
  ELSE start_from

\* ids in the order of ORDER BY start_time ASC (rows of equal start_time in id order)
RECURSIVE ordered(_, _)
ordered(table, ids) ==
  IF ids = {} THEN <<>>
  ELSE LET first == CHOOSE i \in ids :
                      \A j \in ids : \/ table[i].start_time < table[j].start_time
                                     \/ /\ table[i].start_time = table[j].start_time
                                        /\ i <= j
       IN <<first>> \o ordered(table, ids \ {first})

\* list_events(start_date=start_date)
list_events(start_date) ==
  LET ids == ordered(events, {i \in DOMAIN events : events[i].start_time >= start_date})
  IN [k \in 1..Len(ids) |-> events[ids[k]]]

\* the "Find a gap" loop from event k on
RECURSIVE find_gap(_, _, _, _)
find_gap(listed, k, current_time, duration) ==
  IF k > Len(listed) THEN current_time
  ELSE IF listed[k].start_time - current_time >= duration THEN current_time
  ELSE find_gap(listed, k + 1,
                IF listed[k].end_time > current_time THEN listed[k].end_time
                ELSE current_time,
                duration)

get_next_available_slot(duration_minutes, start_from) ==
  LET rounded == round_up(start_from)
      listed == list_events(rounded)
  IN IF listed = <<>> THEN rounded
     ELSE find_gap(listed, 1, rounded, duration_minutes * SecondsPerMinute)

\* ----------------------------------------------------------- EmailService
EmailOutcome(table, ok, action, tick, raised, invoked, delivered) ==
  [table |-> table, ok |-> ok, action |-> action, tick |-> tick, raised |-> raised,
   invoked |-> invoked, delivered |-> delivered]

EmailResponse(id, email) ==
  [id |-> id, to_address |-> email.to_address, subject |-> email.subject,
   body |-> email.body, status |-> email.status,
   confirmation_required |-> email.confirmation_required,
   sent_at |-> email.sent_at, updated_at |-> email.updated_at]

\* the fields of config.Settings; reading any other attribute of the settings
\* object raises AttributeError
Settings ==
  {"app_name", "app_version", "debug", "api_base_url", "database_url", "secret_key",
   "access_token_expire_minutes", "algorithm", "api_token", "llm_provider",
   "openai_api_key", "openai_model", "openai_base_url", "available_llms",
   "tavily_api_key", "max_context_messages", "summary_threshold",
   "google_client_id", "google_client_secret", "google_redirect_uri",
   "microsoft_client_id", "microsoft_client_secret", "microsoft_redirect_uri",
   "weather_api_key", "openweathermap_api_key", "weather_default_city",
   "news_api_key", "newsapi_key", "news_default_country",
   "mail_email", "mail_password", "mail_imap_server", "mail_imap_port",
   "mail_smtp_server", "mail_smtp_port"}

\* _send_email_actual: its first statement reads settings.email_smtp_host; both
\* paths after that read return True.  The call is recorded in the outcome's
\* `invoked`, a delivery in its `delivered`
send_email_actual(email_id) ==
  IF "email_smtp_host" \notin Settings
  THEN [raised |-> "AttributeError", success |-> FALSE]
  ELSE [raised |-> "", success |-> TRUE]

\* the preview with the slice left out: the whole body, "..." appended when long
Preview_uncut(body) ==
  [chars |-> body, ellipsis |-> body > PreviewLimit]

\* the body's first PreviewLimit characters, "..." appended when it was cut
Preview(body) ==
  [chars |-> Min2(body, PreviewLimit), ellipsis |-> body > PreviewLimit]

\* a flush that stamps updated_at whether or not a value changed
Flush_always(old, new) ==
  [new EXCEPT !.updated_at = now + 1]

\* session.flush() of a row without an explicit updated_at: the UPDATE, and with
\* it the column's onupdate=datetime.utcnow, happens only when a value changed
Flush(old, new) ==
  IF new = old THEN old ELSE [new EXCEPT !.updated_at = now + 1]

draft_email(email_data) ==
  LET id == NextId(emails)
      email == [to_address |-> email_data.to_address, subject |-> email_data.subject,
                body |-> email_data.body, status |-> "draft",
                confirmation_required |-> TRUE, sent_at |-> NoTime,
                updated_at |-> now + 1]
  IN Outcome(emails @@ (id :> email), TRUE,
             Action("email_drafted", EmailResponse(id, email)), TRUE, "")

send_email(email_id, confirmed) ==
  IF email_id \notin DOMAIN emails
  THEN Outcome(emails, FALSE, Action("error", [email_id |-> email_id]), FALSE, "")
  ELSE LET email == emails[email_id] IN
  IF email.status = "sent"
  THEN Outcome(emails, TRUE, Action("error", EmailResponse(email_id, email)), FALSE, "")
  ELSE IF ~confirmed
  THEN LET marked == Flush(email, [email EXCEPT !.status = "pending_confirmation"])
       IN Outcome([emails EXCEPT ![email_id] = marked], TRUE,
                  Action("confirmation_required",
                         [email_id |-> email_id, action |-> "send_email",
                          to |-> marked.to_address, subject |-> marked.subject,
                          preview |-> Preview(marked.body)]),
                  marked # email, "")
  ELSE LET actual == send_email_actual(email_id) IN
  IF actual.raised # ""
  THEN EmailOutcome(emails, FALSE, NoAction, FALSE, actual.raised, {email_id}, <<>>)
  ELSE IF actual.success
  THEN LET sent == Flush(email, [email EXCEPT !.status = "sent", !.sent_at = now + 1,
                                              !.confirmation_required = FALSE])
       IN EmailOutcome([emails EXCEPT ![email_id] = sent], TRUE,
                       Action("email_sent", EmailResponse(email_id, sent)),
                       TRUE, "", {email_id}, <<email_id>>)
  ELSE LET failed == Flush(email, [email EXCEPT !.status = "failed"])
       IN EmailOutcome([emails EXCEPT ![email_id] = failed], TRUE,
                       Action("error", EmailResponse(email_id, failed)),
                       failed # email, "", {email_id}, <<>>)

update_draft(email_id, email_data) ==
  IF email_id \notin DOMAIN emails
  THEN Outcome(emails, FALSE, NoAction, FALSE, "")
  ELSE IF emails[email_id].status = "sent"
  THEN Outcome(emails, TRUE, Action("error", [email_id |-> email_id]), FALSE, "")
  ELSE LET email == [emails[email_id] EXCEPT
                       !.to_address = email_data.to_address,
                       !.subject = email_data.subject,
                       !.body = email_data.body,
                       !.status = "draft",
                       !.updated_at = now + 1]
       IN Outcome([emails EXCEPT ![email_id] = email], TRUE,
                  Action("email_drafted", EmailResponse(email_id, email)), TRUE, "")

delete_draft(email_id, confirmed) ==
  IF email_id \notin DOMAIN emails
  THEN Outcome(emails, FALSE, Action("error", [email_id |-> email_id]), FALSE, "")
  ELSE IF emails[email_id].status = "sent" /\ ~confirmed
  THEN Outcome(emails, FALSE,
               Action("confirmation_required",
                      [email_id |-> email_id, action |-> "delete_email"]),
               FALSE, "")
  ELSE Outcome(Without(emails, email_id), TRUE,
               Action("task_deleted", [email_id |-> email_id]), FALSE, "")

\* the two requests that run side by side
Requests == 1..2

Idle == [pc |-> "idle"]

\* send_email up to its first await after get_email: the row as this session
\* loaded it and the confirmed flag of the call
send_email_get(r) ==
  /\ inflight[r].pc = "idle"
  /\ \E email_id \in DOMAIN emails, confirmed \in BOOLEAN :
       inflight' = [inflight EXCEPT ![r] = [pc |-> "got", email_id |-> email_id,
                                            confirmed |-> confirmed,
                                            seen |-> emails[email_id]]]
  /\ UNCHANGED <<dbvars, gvars, turnvars, memories>>

\* the UPDATE a flush sends for the attributes this session changed on the row
\* it loaded; an attribute set to the value it was loaded with is not written
Written(stored, seen, changed) ==
  LET dirty == {f \in DOMAIN changed : changed[f] # seen[f]} IN
  IF dirty = {} THEN stored
  ELSE [f \in DOMAIN stored |->
          IF f \in dirty THEN changed[f]
          ELSE IF f = "updated_at" THEN now + 1
          ELSE stored[f]]

\* send_email resumed after an await, up to its next one: after get_email the
\* status check, then for an unconfirmed call the pending_confirmation write and
\* for a confirmed call _send_email_actual; after _send_email_actual the status
\* write
send_email_resume(r) ==
  /\ inflight[r].pc \in {"got", "transmitted", "untransmitted"}
  /\ LET call == inflight[r]
         actual == send_email_actual(call.email_id)
         changed == IF call.pc = "transmitted"
                    THEN [status |-> "sent", sent_at |-> now + 1,
                          confirmation_required |-> FALSE]
                    ELSE IF call.pc = "untransmitted" THEN [status |-> "failed"]
                    ELSE [status |-> "pending_confirmation"]
         row == Written(emails[call.email_id], call.seen, changed) IN
     IF call.pc = "got" /\ call.seen.status = "sent"
     THEN /\ inflight' = [inflight EXCEPT ![r].pc = "responded"]
          /\ UNCHANGED <<emails, outbox, now>>
     ELSE IF call.pc = "got" /\ call.confirmed
     THEN /\ inflight' = [inflight EXCEPT ![r].pc =
                            IF actual.raised # "" THEN "failed"
                            ELSE IF actual.success THEN "transmitted"
                            ELSE "untransmitted"]
          /\ outbox' = IF actual.raised = "" /\ actual.success
                       THEN Append(outbox, call.email_id) ELSE outbox
          /\ UNCHANGED <<emails, now>>
     ELSE /\ row # emails[call.email_id] => now < MaxClock
          /\ emails' = [emails EXCEPT ![call.email_id] = row]
          /\ now' = IF row # emails[call.email_id] THEN now + 1 ELSE now
          /\ inflight' = [inflight EXCEPT ![r].pc = "responded"]
          /\ UNCHANGED outbox
  /\ UNCHANGED <<tasks, events, last, gvars, turnvars, memories>>

\* ------------------------------------------------------------- HTTP routes
\* the status of the target before the call ("absent" when no such row)
TaskPre(id) == IF id \in DOMAIN tasks THEN tasks[id].status ELSE "absent"
EventPre(id) == IF id \in DOMAIN events THEN "stored" ELSE "absent"
EmailPre(id) == IF id \in DOMAIN emails THEN emails[id].status ELSE "absent"

\* the service call each gated endpoint makes for a `confirmed` parameter
complete_task_endpoint(task_id, param) == complete_task(task_id, QueryBool(param, TRUE))
delete_task_endpoint(task_id, param) == delete_task(task_id, QueryBool(param, FALSE))
delete_event_endpoint(event_id, param) == delete_event(event_id, QueryBool(param, FALSE))
send_email_endpoint(email_id, param) == send_email(email_id, QueryBool(param, FALSE))
delete_email_endpoint(email_id, param) == delete_draft(email_id, QueryBool(param, FALSE))

\* what the route answers: 500 when the service raised, 404 where the route
\* raises HTTPException for a missing row, else 200 with the Action
Respond(op, id, param, confirmed, pre, r, http, hasSuccess) ==
  /\ r.tick => now < MaxClock
  /\ now' = IF r.tick THEN now + 1 ELSE now
  /\ outbox' = outbox \o r.delivered
  /\ last' = [op |-> op, id |-> id, param |-> param, confirmed |-> confirmed,
              pre |-> pre, http |-> http,
              type |-> IF http = 200 THEN r.action.type ELSE "none",
              payload |-> IF http = 200 THEN r.action.payload ELSE NoPayload,
              hasSuccess |-> hasSuccess /\ http = 200,
              success |-> hasSuccess /\ http = 200 /\ r.ok,
              invoked |-> r.invoked]
  /\ UNCHANGED <<gvars, turnvars, memvars>>

route_create_task ==
  \E task_data \in TaskCreate :
    LET r == create_task(task_data) IN
    /\ NextId(tasks) <= MaxTasks
    /\ tasks' = r.table
    /\ Respond("create_task", NextId(tasks), "n/a", FALSE, "absent", r, 200, FALSE)
    /\ UNCHANGED <<events, emails>>

route_update_task ==
  \E task_id \in TaskIds, task_data \in TaskUpdate :
    LET r == update_task(task_id, task_data) IN
    /\ tasks' = r.table
    /\ Respond("update_task", task_id, "n/a", FALSE, TaskPre(task_id), r,
               IF r.ok THEN 200 ELSE 404, FALSE)
    /\ UNCHANGED <<events, emails>>

route_complete_task ==
  \E task_id \in TaskIds, param \in ConfirmedParams :
    LET confirmed == QueryBool(param, TRUE)
        r == complete_task_endpoint(task_id, param) IN
    /\ tasks' = r.table
    /\ Respond("complete_task", task_id, param, confirmed, TaskPre(task_id), r,
               IF ~r.ok /\ r.action = NoAction THEN 404 ELSE 200, FALSE)
    /\ UNCHANGED <<events, emails>>

route_reopen_task ==
  \E task_id \in TaskIds :
    LET r == reopen_task(task_id) IN
    /\ tasks' = r.table
    /\ Respond("reopen_task", task_id, "n/a", FALSE, TaskPre(task_id), r,
               IF r.ok THEN 200 ELSE 404, FALSE)
    /\ UNCHANGED <<events, emails>>

route_delete_task ==
  \E task_id \in TaskIds, param \in ConfirmedParams :
    LET confirmed == QueryBool(param, FALSE)
        r == delete_task_endpoint(task_id, param) IN
    /\ tasks' = r.table
    /\ Respond("delete_task", task_id, param, confirmed, TaskPre(task_id), r, 200, TRUE)
    /\ UNCHANGED <<events, emails>>

route_create_event ==
  \E event_data \in EventCreate :
    LET r == create_event(event_data) IN
    /\ NextId(events) <= MaxEvents
    /\ events' = r.table
    /\ Respond("create_event", NextId(events), "n/a", FALSE, "absent", r, 200, FALSE)
    /\ UNCHANGED <<tasks, emails>>

\* EventCreate takes any two datetimes: start_time need not precede end_time
Hours == 0..MaxHour
EventSlots == {[title |-> "Slot", start_time |-> s, end_time |-> e] : s \in Hours, e \in Hours}

\* POST /calendar with any of the slots, on a calendar of up to MaxEvents + 1 events
calendar_create_event ==
  \E event_data \in EventSlots :
    LET r == create_event(event_data) IN
    /\ NextId(events) <= MaxEvents + 1
    /\ events' = r.table
    /\ Respond("create_event", NextId(events), "n/a", FALSE, "absent", r, 200, FALSE)
    /\ UNCHANGED <<tasks, emails>>

\* EventUpdate with any subset of its fields set
EventMoves ==
  {[title |-> "Review"]}
  \cup {[start_time |-> t] : t \in Hours}
  \cup {[end_time |-> t] : t \in Hours}
  \cup {[title |-> "Review", start_time |-> t] : t \in Hours}

\* PUT /calendar/{event_id} with any of the moves; the request body is kept in
\* last.param
calendar_update_event ==
  \E event_id \in 1..(MaxEvents + 2), event_data \in EventMoves :
    LET r == update_event(event_id, event_data) IN
    /\ events' = r.table
    /\ Respond("update_event", event_id, event_data, FALSE, EventPre(event_id), r,
               IF r.ok THEN 200 ELSE 404, FALSE)
    /\ UNCHANGED <<tasks, emails>>

\* the instants a search starts from: on and off the half-hour marks, with and
\* without seconds
Instants ==
  {h * SecondsPerHour + m * SecondsPerMinute + sec :
     h \in 0..1, m \in {0, 10, 30, 45}, sec \in {0, 30}}

Durations == {30, 60}

\* GET /calendar/next-slot
calendar_next_slot ==
  \E duration_minutes \in Durations, start_from \in Instants :
    /\ last' = [op |-> "get_next_available_slot", id |-> 0,
                param |-> [duration_minutes |-> duration_minutes,
                           start_from |-> start_from],
                confirmed |-> FALSE, pre |-> "absent", http |-> 200, type |-> "none",
                payload |-> [next_available_slot |->
                               get_next_available_slot(duration_minutes, start_from)],
                hasSuccess |-> FALSE, success |-> FALSE, invoked |-> {}]
    /\ UNCHANGED <<tasks, events, emails, now, outbox, gvars, turnvars, memvars>>

route_update_event ==
  \E event_id \in EventIds, event_data \in EventUpdate :
    LET r == update_event(event_id, event_data) IN
    /\ events' = r.table
    /\ Respond("update_event", event_id, "n/a", FALSE, EventPre(event_id), r,
               IF r.ok THEN 200 ELSE 404, FALSE)
    /\ UNCHANGED <<tasks, emails>>

route_delete_event ==
  \E event_id \in EventIds, param \in ConfirmedParams :
    LET confirmed == QueryBool(param, FALSE)
        r == delete_event_endpoint(event_id, param) IN
    /\ events' = r.table
    /\ Respond("delete_event", event_id, param, confirmed, EventPre(event_id), r, 200, TRUE)
    /\ UNCHANGED <<tasks, emails>>

route_draft_email ==
  \E email_data \in EmailDraft :
    LET r == draft_email(email_data) IN
    /\ NextId(emails) <= MaxEmails
    /\ emails' = r.table
    /\ Respond("draft_email", NextId(emails), "n/a", FALSE, "absent", r, 200, FALSE)
    /\ UNCHANGED <<tasks, events>>

route_update_draft ==
  \E email_id \in EmailIds, email_data \in EmailDraft :
    LET r == update_draft(email_id, email_data) IN
    /\ emails' = r.table
    /\ Respond("update_draft", email_id, "n/a", FALSE, EmailPre(email_id), r,
               IF r.ok THEN 200 ELSE 404, FALSE)
    /\ UNCHANGED <<tasks, events>>

route_send_email ==
  \E email_id \in EmailIds, param \in ConfirmedParams :
    LET confirmed == QueryBool(param, FALSE)
        r == send_email_endpoint(email_id, param) IN
    /\ emails' = r.table
    /\ Respond("send_email", email_id, param, confirmed, EmailPre(email_id), r,
               IF r.raised # "" THEN 500 ELSE 200, FALSE)
    /\ UNCHANGED <<tasks, events>>

route_delete_email ==
  \E email_id \in EmailIds, param \in ConfirmedParams :
    LET confirmed == QueryBool(param, FALSE)
        r == delete_email_endpoint(email_id, param) IN
    /\ emails' = r.table
    /\ Respond("delete_email", email_id, param, confirmed, EmailPre(email_id), r, 200, TRUE)
    /\ UNCHANGED <<tasks, events>>

\* ------------------------------------------------------ FunctionExecutor
\* the methods GoogleGmailService defines; calling any other raises AttributeError
GoogleGmailService == {"list_messages", "get_message", "get_important_messages"}

\* what a capability hands back: the result envelope and the Google task list after
Ran(result, list) == [result |-> result, gtasks |-> list]

\* Python's binding of **arguments to a signature: every required parameter is
\* given and no unknown keyword is
Binds(arguments, required, optional) ==
  /\ required \subseteq DOMAIN arguments
  /\ DOMAIN arguments \subseteq (required \cup optional)

\* GoogleTasksService._get_service raises ValueError without a stored token; the
\* Tasks API raises HttpError for a task id it does not hold
fx_create_task(arguments) ==
  IF ~token THEN Ran([success |-> FALSE, error |-> "ValueError"], gtasks)
  ELSE LET id == NextId(gtasks) IN
       Ran([success |-> TRUE, message |-> "Created task", task_id |-> id],
           gtasks @@ (id :> [title |-> arguments.title, status |-> "needsAction"]))

fx_complete_task(arguments) ==
  IF ~token THEN Ran([success |-> FALSE, error |-> "ValueError"], gtasks)
  ELSE IF arguments.task_id \notin DOMAIN gtasks
  THEN Ran([success |-> FALSE, error |-> "HttpError"], gtasks)
  ELSE Ran([success |-> TRUE, message |-> "Completed task"],
           [gtasks EXCEPT ![arguments.task_id].status = "completed"])

fx_delete_task(arguments) ==
  IF ~token THEN Ran([success |-> FALSE, error |-> "ValueError"], gtasks)
  ELSE IF arguments.task_id \notin DOMAIN gtasks
  THEN Ran([success |-> FALSE, error |-> "HttpError"], gtasks)
  ELSE Ran([success |-> TRUE, message |-> "Task deleted successfully"],
           Without(gtasks, arguments.task_id))

fx_send_email(arguments) ==
  IF "send_email" \notin GoogleGmailService
  THEN Ran([success |-> FALSE, error |-> "AttributeError"], gtasks)
  ELSE Ran([success |-> TRUE, message |-> "Email sent"], gtasks)

fx_get_tasks(arguments) ==
  IF ~token THEN Ran([success |-> FALSE, error |-> "ValueError"], gtasks)
  ELSE LET listed == {i \in DOMAIN gtasks :
                        gtasks[i].status # "completed"
                          \/ ("show_completed" \in DOMAIN arguments /\ arguments.show_completed)}
       IN Ran([success |-> TRUE, tasks |-> listed, count |-> Cardinality(listed)], gtasks)

\* the briefing asks the other capabilities and keeps the parts that succeeded; it
\* reports success whatever they answered.  The calendar needs the same Google
\* token as the tasks; the weather part is absent while no API key is configured.
fx_get_daily_briefing(arguments) ==
  LET wanted(part) == part \in DOMAIN arguments => arguments[part]
      tasks_part == fx_get_tasks(<<>>).result
      parts == {part \in {"include_calendar", "include_tasks"} : wanted(part) /\ token}
  IN Ran([success |-> TRUE, date |-> "today", parts |-> parts,
          task_count |-> IF "include_tasks" \in parts THEN tasks_part.count ELSE 0],
         gtasks)

\* the names execute knows
Registry ==
  {"get_calendar_events", "create_calendar_event", "get_tasks", "create_task",
   "complete_task", "delete_task", "get_gmail_messages", "search_emails", "send_email",
   "check_server_status", "who_am_i", "get_system_metrics", "get_ai_configuration",
   "get_current_weather", "get_weather_forecast", "web_search", "get_daily_briefing",
   "get_current_datetime", "remember_info", "search_memory", "add_knowledge"}

execute(function_name, arguments) ==
  IF function_name = "get_tasks"
  THEN IF Binds(arguments, {}, {"show_completed", "max_results"})
       THEN fx_get_tasks(arguments)
       ELSE Ran([error |-> "TypeError"], gtasks)
  ELSE IF function_name = "get_daily_briefing"
  THEN IF Binds(arguments, {}, {"include_weather", "include_calendar", "include_tasks"})
       THEN fx_get_daily_briefing(arguments)
       ELSE Ran([error |-> "TypeError"], gtasks)
  ELSE IF function_name = "create_task"
  THEN IF Binds(arguments, {"title"}, {"notes", "due_date"})
       THEN fx_create_task(arguments)
       ELSE Ran([error |-> "TypeError"], gtasks)
  ELSE IF function_name = "complete_task"
  THEN IF Binds(arguments, {"task_id"}, {})
       THEN fx_complete_task(arguments)
       ELSE Ran([error |-> "TypeError"], gtasks)
  ELSE IF function_name = "delete_task"
  THEN IF Binds(arguments, {"task_id"}, {})
       THEN fx_delete_task(arguments)
       ELSE Ran([error |-> "TypeError"], gtasks)
  ELSE IF function_name = "send_email"
  THEN IF Binds(arguments, {"to", "subject", "body"}, {"cc", "bcc"})
       THEN fx_send_email(arguments)
       ELSE Ran([error |-> "TypeError"], gtasks)
  ELSE Ran([error |-> "Unknown function"], gtasks)

\* the function calls the model may issue in a turn
FunctionCalls ==
  {[name |-> "create_task", arguments |-> [title |-> "Pay rent"]]}
  \cup {[name |-> "complete_task", arguments |-> [task_id |-> i]] : i \in GTaskIds}
  \cup {[name |-> "delete_task", arguments |-> [task_id |-> i]] : i \in GTaskIds}
  \cup {[name |-> "delete_task", arguments |-> [task_id |-> i, confirmed |-> TRUE]] :
          i \in GTaskIds}
  \cup {[name |-> "send_email",
         arguments |-> [to |-> "a@x.org", subject |-> "Hi", body |-> "Hello"]]}
  \cup {[name |-> "open_pod_bay_doors", arguments |-> [door |-> 1]]}
  \cup {[name |-> "get_tasks", arguments |-> [show_completed |-> b]] : b \in BOOLEAN}
  \cup {[name |-> "get_daily_briefing", arguments |-> [include_tasks |-> b]] : b \in BOOLEAN}

\* chat_stream.generate on a function_call event: function_start, the dispatch,
\* function_result; fx keeps what the client was shown and which Google tasks
\* the dispatch removed
chat_function_call ==
  \E call \in FunctionCalls :
    LET ran == execute(call.name, call.arguments) IN
    /\ DOMAIN ran.gtasks \subseteq 1..MaxGTasks
    /\ gtasks' = ran.gtasks
    /\ fx' = [name |-> call.name, arguments |-> call.arguments, result |-> ran.result,
              removed |-> (DOMAIN gtasks) \ (DOMAIN ran.gtasks)]
    /\ UNCHANGED <<token, dbvars, turnvars, memvars>>

\* the OAuth callback stores google_token.json; logout removes it
google_callback ==
  /\ ~token
  /\ token' = TRUE
  /\ UNCHANGED <<gtasks, fx, dbvars, turnvars, memvars>>

google_logout ==
  /\ token
  /\ token' = FALSE
  /\ UNCHANGED <<gtasks, fx, dbvars, turnvars, memvars>>


\* ------------------------------------------------- OpenAIResponsesService
\* lines of the upstream /responses event stream
Deltas == {<<>>, <<"a">>, <<"b">>}

\* the function calls the model's output may hold, in the order it makes them
ModelCalls ==
  <<[name |-> "create_task", arguments |-> [title |-> "Pay rent"]],
    [name |-> "delete_task", arguments |-> [task_id |-> 1]],
    [name |-> "open_pod_bay_doors", arguments |-> [door |-> 1]]>>

CallOf(k) == ModelCalls[((k - 1) % Len(ModelCalls)) + 1]

TextDelta(d) == [type |-> "response.output_text.delta", delta |-> d]
ItemAdded(k) == [type |-> "response.output_item.added", item |-> "function_call",
                 name |-> CallOf(k).name]
\* the JSON text of call k's arguments arrives in two fragments
ArgsFragment(k, part) == [call |-> k, part |-> part]
ArgsDelta(k, part) == [type |-> "response.function_call_arguments.delta",
                       delta |-> <<ArgsFragment(k, part)>>]
ArgsText(k) == <<ArgsFragment(k, 1), ArgsFragment(k, 2)>>

IsText(line) == line.type = "response.output_text.delta"
IsAdded(line) == line.type = "response.output_item.added"
IsArgs(line) == line.type = "response.function_call_arguments.delta"
IsCallLine(line) == IsAdded(line) \/ IsArgs(line)

\* the lines the model may send next: text, a new function call, or the rest of the
\* call it is in the middle of
NextLines(lines, texts) ==
  LET n == Len(SelectSeq(lines, IsCallLine))
      k == (n \div 3) + 1 IN
  IF n % 3 = 0
  THEN {TextDelta(d) : d \in {d \in Deltas : texts < MaxDeltas}}
       \cup {ItemAdded(j) : j \in {j \in {k} : j <= MaxCalls}}
  ELSE {ArgsDelta(k, n % 3)}

\* json.loads of the accumulated argument text: the arguments of the one call the
\* text spells, JSONDecodeError for anything else
json_loads(text) ==
  IF \E k \in 1..MaxCalls : text = ArgsText(k)
  THEN [ok |-> TRUE, value |-> CallOf(CHOOSE k \in 1..MaxCalls : text = ArgsText(k)).arguments]
  ELSE [ok |-> FALSE, value |-> <<>>]

\* generate_with_functions_stream's accumulators after reading the lines
RECURSIVE function_arguments(_)
function_arguments(lines) ==
  IF lines = <<>> THEN <<>>
  ELSE LET rest == function_arguments(SubSeq(lines, 1, Len(lines) - 1))
           line == lines[Len(lines)] IN
       IF IsArgs(line) THEN rest \o line.delta ELSE rest

function_name(lines) ==
  LET added == SelectSeq(lines, IsAdded) IN
  IF added = <<>> THEN "" ELSE added[Len(added)].name

has_function_call(lines) == SelectSeq(lines, IsCallLine) # <<>>

\* what the service yields for one line: a chunk for a text delta that is not empty
llm_chunks(line) ==
  IF IsText(line) /\ line.delta # <<>>
  THEN <<[type |-> "chunk", content |-> line.delta]>>
  ELSE <<>>

\* what it yields when the upstream stream has ended
llm_tail(lines) ==
  IF has_function_call(lines) /\ function_name(lines) # ""
  THEN LET text == function_arguments(lines)
           args == IF text # <<>> /\ json_loads(text).ok THEN json_loads(text).value ELSE <<>>
       IN <<[type |-> "function_call", name |-> function_name(lines), arguments |-> args],
            [type |-> "done"]>>
  ELSE <<[type |-> "done"]>>

\* ------------------------------------------------------ ConversationEngine
\* add_message storing a row without the content
add_message_blank(messages, role, content) ==
  Append(messages, [role |-> role, content |-> <<>>])

add_message(messages, role, content) == Append(messages, [role |-> role, content |-> content])

\* ORDER BY created_at ASC over the rows in the order they are stored
RECURSIVE order_by_created_at(_)
order_by_created_at(rows) ==
  IF rows = <<>> THEN <<>>
  ELSE LET k == CHOOSE i \in 1..Len(rows) :
                  \A j \in 1..Len(rows) : \/ rows[i].created_at < rows[j].created_at
                                          \/ /\ rows[i].created_at = rows[j].created_at
                                             /\ i <= j
       IN <<rows[k]>> \o order_by_created_at(SubSeq(rows, 1, k - 1) \o SubSeq(rows, k + 1, Len(rows)))

\* messages[-k:] of Python, for k # 0
last_slice(messages, k) ==
  LET len == Len(messages)
      from == IF k > 0 THEN Max({len - k, 0}) ELSE Max({0 - k, 0})
  IN SubSeq(messages, from + 1, len)

\* get_context_messages keeping the oldest messages of the window
get_context_messages_oldest(rows, max_messages) ==
  LET max == IF max_messages = 0 THEN max_context_messages ELSE max_messages
      messages == order_by_created_at(rows)
      windowed == IF Len(messages) > max THEN SubSeq(messages, 1, max) ELSE messages
  IN [i \in 1..Len(windowed) |-> [role |-> windowed[i].role, content |-> windowed[i].content]]

\* max_messages = 0 stands for None as well: both take the configured default
get_context_messages(rows, max_messages) ==
  LET max == IF max_messages = 0 THEN max_context_messages ELSE max_messages
      messages == order_by_created_at(rows)
      windowed == IF Len(messages) > max THEN last_slice(messages, max) ELSE messages
  IN [i \in 1..Len(windowed) |-> [role |-> windowed[i].role, content |-> windowed[i].content]]

\* ------------------------------------------------------------ MemoryService
\* the facts an extraction stores
Facts ==
  {[category |-> "preference", key |-> k, value |-> f[1], importance |-> f[2]] :
     k \in {"tea", "wake"}, f \in {<<"green", 5>>, <<"black", 7>>}}

\* select(Memory).where(Memory.category == category, Memory.key == key), on the
\* committed rows
select_memory(category, key) ==
  {id \in DOMAIN memories : memories[id].category = category /\ memories[id].key = key}

\* store_memory up to scalar_one_or_none, which raises when two rows match
store_memory_select(r) ==
  /\ inflight[r].pc = "idle"
  /\ \E fact \in Facts :
       LET found == select_memory(fact.category, fact.key) IN
       inflight' = [inflight EXCEPT ![r] =
                      IF Cardinality(found) > 1
                      THEN [pc |-> "failed", raised |-> "MultipleResultsFound"]
                      ELSE [pc |-> "selected", fact |-> fact, existing |-> Max(found),
                            seen |-> IF found = {} THEN fact ELSE memories[Max(found)]]]
  /\ UNCHANGED <<dbvars, gvars, turnvars, memories>>

\* the flush: the UPDATE of the row found, or the INSERT of a new one.  One
\* session writes at a time; a flush that meets another session's open write
\* fails
store_memory_flush(r) ==
  /\ inflight[r].pc = "selected"
  /\ LET call == inflight[r] IN
     IF \E o \in Requests \ {r} : inflight[o].pc = "flushed"
     THEN inflight' = [inflight EXCEPT ![r] = [pc |-> "failed", raised |-> "OperationalError"]]
     ELSE IF call.existing # 0
     THEN inflight' = [inflight EXCEPT ![r] =
                         [pc |-> "flushed", fact |-> call.fact,
                          pending |-> [memories EXCEPT ![call.existing] =
                                         [category |-> @.category, key |-> @.key,
                                          value |-> IF call.fact.value # call.seen.value
                                                    THEN call.fact.value ELSE @.value,
                                          importance |->
                                            IF call.fact.importance # call.seen.importance
                                            THEN call.fact.importance ELSE @.importance]]]]
     ELSE /\ Cardinality(DOMAIN memories) < MaxMemories
          /\ inflight' = [inflight EXCEPT ![r] =
                            [pc |-> "flushed", fact |-> call.fact,
                             pending |-> memories @@ (NextId(memories) :> call.fact)]]
  /\ UNCHANGED <<dbvars, gvars, turnvars, memories>>

\* the request ends and its session commits
store_memory_commit(r) ==
  /\ inflight[r].pc = "flushed"
  /\ memories' = inflight[r].pending
  /\ last' = [op |-> "store_memory", id |-> 0, param |-> inflight[r].fact,
              confirmed |-> FALSE, pre |-> "absent", http |-> 0, type |-> "none",
              payload |-> NoPayload, hasSuccess |-> FALSE, success |-> FALSE,
              invoked |-> {}]
  /\ inflight' = [inflight EXCEPT ![r] = Idle]
  /\ UNCHANGED <<tasks, events, emails, now, outbox, gvars, turnvars>>

\* the request ends with the exception and its session rolls back
store_memory_rollback(r) ==
  /\ inflight[r].pc = "failed"
  /\ inflight' = [inflight EXCEPT ![r] = Idle]
  /\ UNCHANGED <<dbvars, gvars, turnvars, memories>>

\* --------------------------------------------------------------- get_db
\* the request's transaction: committed when the request ends normally, rolled
\* back when it ends with an exception or is torn down
get_db(committed, pending, normal) == IF normal THEN pending ELSE committed

\* ------------------------------------------------------------ chat_stream
Request == [message |-> <<"q">>]

\* the row get_or_create_conversation returns
Conversation == [id |-> 1]

start_event(conversation_id) == [type |-> "start", conversation_id |-> conversation_id]
chunk_event(content) == [type |-> "chunk", content |-> content]
\* function_start announcing no name
function_start_event_unnamed(name) == [type |-> "function_start", name |-> ""]

function_start_event(name) == [type |-> "function_start", name |-> name]
function_result_event(name, result) ==
  [type |-> "function_result", name |-> name, result |-> result]
title_event(t) == [type |-> "title_generated", title |-> t]
done_event(content) == [type |-> "done", content |-> content]
error_event(message) == [type |-> "error", message |-> message]

\* full_response = content: the reply so far is overwritten
accumulate_overwrite(full, content) == content

\* full_response += content
accumulate(full, content) == full \o content

\* the exception swallowed without a word to the client
on_exception_silent(stream, e) == stream

\* the handler reports the error and then falls through to the closing done
on_exception_falls_through(stream, e) ==
  Append(Append(stream, [type |-> "error", message |-> e]), [type |-> "done", content |-> <<>>])

\* generate's `except Exception`: one error event closes the stream
on_exception(stream, e) == Append(stream, error_event(e))

\* generate_conversation_title leaving the title unset when the model call fails
generate_conversation_title_unset(answered) ==
  IF answered THEN "Generated" ELSE "None"

\* the title the model wrote, or the placeholder when the call fails: the service
\* catches every exception of the call itself, so the caller's own handler
\* (chat.py:317-319) is never entered
generate_conversation_title(answered) ==
  IF answered THEN "Generated" ELSE "Yeni Sohbet"

\* lines 156-238, then generate up to its first yield.  An exception here leaves
\* chat_stream: the request fails and no stream is opened.
chat_stream ==
  /\ pc = "idle"
  /\ \E e \in {"", "build_context_from_memory", "add_message", "get_context_messages"} :
       IF e = ""
       THEN /\ session' = add_message(session, "user", Request.message)
            /\ sse' = <<start_event(Conversation.id)>>
            /\ pc' = "first_pass"
            /\ UNCHANGED <<failure, durable>>
       ELSE /\ failure' = e
            /\ pc' = "failed"
            /\ session' = get_db(durable, session, FALSE)
            /\ durable' = get_db(durable, session, FALSE)
            /\ UNCHANGED sse
  /\ UNCHANGED <<wire, follow_up, full_response, function_result, dispatched, title, facts>>
  /\ UNCHANGED <<dbvars, gvars, memvars>>

\* one iteration of `async for event in llm.generate_with_functions_stream`: the
\* service reads a line and generate forwards the chunk it yields, if any
first_pass_line ==
  /\ pc = "first_pass"
  /\ \E line \in NextLines(wire, Len(SelectSeq(wire, IsText))) :
       LET chunks == llm_chunks(line) IN
       /\ wire' = Append(wire, line)
       /\ full_response' = IF chunks = <<>> THEN full_response
                           ELSE accumulate(full_response, chunks[1].content)
       /\ sse' = IF chunks = <<>> THEN sse ELSE Append(sse, chunk_event(chunks[1].content))
  /\ UNCHANGED <<pc, follow_up, function_result, dispatched, session, durable, title,
                 failure, facts>>
  /\ UNCHANGED <<dbvars, gvars, memvars>>

\* the upstream stream ends between two items of the model's output: the service
\* yields the accumulated function call, if any, and then done
first_pass_end ==
  /\ pc = "first_pass"
  /\ Len(SelectSeq(wire, IsCallLine)) % 3 = 0
  /\ LET tail == llm_tail(wire) IN
     IF tail[1].type = "function_call"
     THEN /\ sse' = Append(sse, function_start_event(tail[1].name))
          /\ pc' = "execute"
     ELSE /\ pc' = "save"
          /\ UNCHANGED sse
  /\ UNCHANGED <<wire, follow_up, full_response, function_result, dispatched, session,
                 durable, title, failure, facts>>
  /\ UNCHANGED <<dbvars, gvars, memvars>>

\* lines 261-269: the dispatch and the function_result event
function_call ==
  /\ pc = "execute"
  /\ LET event == llm_tail(wire)[1]
         ran == execute(event.name, event.arguments) IN
     /\ dispatched' = Append(dispatched, [name |-> event.name, arguments |-> event.arguments])
     /\ function_result' = [name |-> event.name, result |-> ran.result]
     /\ sse' = Append(sse, function_result_event(event.name, ran.result))
     /\ gtasks' = ran.gtasks
  /\ pc' = "follow_up"
  /\ UNCHANGED <<wire, follow_up, full_response, session, durable, title, failure, facts>>
  /\ UNCHANGED <<dbvars, token, fx, memvars>>

\* one iteration of `async for chunk in llm.generate_response_stream`
follow_up_line ==
  /\ pc = "follow_up"
  /\ \E d \in {d \in Deltas : Len(SelectSeq(wire, IsText)) + Len(follow_up) < MaxDeltas} :
       LET chunks == llm_chunks(TextDelta(d)) IN
       /\ follow_up' = Append(follow_up, TextDelta(d))
       /\ full_response' = IF chunks = <<>> THEN full_response
                           ELSE accumulate(full_response, chunks[1].content)
       /\ sse' = IF chunks = <<>> THEN sse ELSE Append(sse, chunk_event(chunks[1].content))
  /\ UNCHANGED <<pc, wire, function_result, dispatched, session, durable, title,
                 failure, facts>>
  /\ UNCHANGED <<dbvars, gvars, memvars>>

follow_up_end ==
  /\ pc = "follow_up"
  /\ pc' = "save"
  /\ UNCHANGED <<wire, follow_up, sse, full_response, function_result, dispatched, session,
                 durable, title, failure, facts>>
  /\ UNCHANGED <<dbvars, gvars, memvars>>

\* the model call raises (HTTP status, timeout, broken stream) in either pass;
\* nothing was written since the user message, so the request's transaction
\* commits when the stream has closed
\* the handler undoing what the dispatched function did
model_error_compensating ==
  /\ pc \in {"first_pass", "follow_up"}
  /\ failure' = "model"
  /\ sse' = on_exception(sse, "model")
  /\ pc' = "closed"
  /\ durable' = get_db(durable, session, TRUE)
  /\ gtasks' = <<>>
  /\ UNCHANGED <<wire, follow_up, full_response, function_result, dispatched, session,
                 title, facts>>
  /\ UNCHANGED <<dbvars, token, fx, memvars>>

model_error ==
  /\ pc \in {"first_pass", "follow_up"}
  /\ failure' = "model"
  /\ sse' = on_exception(sse, "model")
  /\ pc' = "closed"
  /\ durable' = get_db(durable, session, TRUE)
  /\ UNCHANGED <<wire, follow_up, full_response, function_result, dispatched, session,
                 title, facts>>
  /\ UNCHANGED <<dbvars, gvars, memvars>>

\* lines 305-319: nothing to save closes the stream with done; else the assistant
\* message is added and a conversation without a title gets one.  A failed flush
\* rolls the transaction back; a failed title request falls back to the placeholder.
save ==
  /\ pc = "save"
  /\ IF full_response = <<>>
     THEN /\ sse' = Append(sse, done_event(full_response))
          /\ pc' = "closed"
          /\ durable' = get_db(durable, session, TRUE)
          /\ UNCHANGED <<session, title, failure>>
     ELSE \E e \in {"", "add_message", "generate_conversation_title"} :
            IF e = "add_message"
            THEN /\ failure' = e
                 /\ sse' = on_exception(sse, e)
                 /\ pc' = "closed"
                 /\ session' = get_db(durable, session, FALSE)
                 /\ UNCHANGED <<durable, title>>
            ELSE /\ session' = add_message(session, "assistant", full_response)
                 /\ pc' = "commit"
                 /\ UNCHANGED durable
                 /\ IF title # "None"
                    THEN e = "" /\ UNCHANGED <<title, sse, failure>>
                    ELSE /\ title' = generate_conversation_title(e = "")
                         /\ sse' = Append(sse, title_event(generate_conversation_title(e = "")))
                         /\ failure' = IF e = "" THEN failure ELSE e
  /\ UNCHANGED <<wire, follow_up, full_response, function_result, dispatched, facts>>
  /\ UNCHANGED <<dbvars, gvars, memvars>>

\* lines 321-338: the commit, the count of the conversation's messages, the fact
\* extraction on every FactEvery-th message, done
commit ==
  /\ pc = "commit"
  /\ pc' = "closed"
  /\ \E e \in {"", "commit", "extract_and_store_facts"} :
       IF e = "commit"
       THEN /\ failure' = e
            /\ sse' = on_exception(sse, e)
            /\ session' = get_db(durable, session, FALSE)
            /\ UNCHANGED <<durable, facts>>
       ELSE LET msg_count == Len(session) IN
            /\ durable' = session
            /\ sse' = Append(sse, done_event(full_response))
            /\ IF msg_count > 0 /\ msg_count % FactEvery = 0
               THEN /\ facts' = IF e = "" THEN "extracted" ELSE "failed"
                    /\ failure' = IF e = "" THEN failure ELSE e
               ELSE e = "" /\ UNCHANGED <<facts, failure>>
            /\ UNCHANGED session
  /\ UNCHANGED <<wire, follow_up, full_response, function_result, dispatched, title>>
  /\ UNCHANGED <<dbvars, gvars, memvars>>

\* the request is torn down while the stream is open (the client goes away, the
\* server stops): generate never resumes and the transaction never commits
cut_off ==
  /\ pc \in {"first_pass", "execute", "follow_up", "save", "commit"}
  /\ pc' = "cut_off"
  /\ session' = get_db(durable, session, FALSE)
  /\ UNCHANGED <<wire, follow_up, sse, full_response, function_result, dispatched,
                 durable, title, failure, facts>>
  /\ UNCHANGED <<dbvars, gvars, memvars>>

\* a conversation that already holds n messages
History(n) ==
  [i \in 1..n |-> [role |-> IF i % 2 = 1 THEN "user" ELSE "assistant", content |-> <<"h">>]]

\* no turn is being served; the conversation holds the messages and has title t
InitConversation(messages, t) ==
  /\ pc = "idle"
  /\ wire = <<>>
  /\ follow_up = <<>>
  /\ sse = <<>>
  /\ full_response = <<>>
  /\ function_result = NoPayload
  /\ dispatched = <<>>
  /\ session = messages
  /\ durable = messages
  /\ title = t
  /\ failure = ""
  /\ facts = "none"

InitStore ==
  /\ tasks = <<>>
  /\ events = <<>>
  /\ emails = <<>>
  /\ now = 0
  /\ outbox = <<>>
  /\ last = [op |-> "none", id |-> 0, param |-> "n/a", confirmed |-> FALSE,
             pre |-> "absent", http |-> 0, type |-> "none", payload |-> NoPayload,
             hasSuccess |-> FALSE, success |-> FALSE, invoked |-> {}]
  /\ gtasks = <<>>
  /\ token = FALSE
  /\ fx = [name |-> "none", arguments |-> NoPayload, result |-> NoPayload, removed |-> {}]
  /\ memories = <<>>
  /\ inflight = <<>>

Init == InitStore /\ InitConversation(<<>>, "None")

\* a turn is asked of a new conversation or of one that earlier turns left behind
InitTurn ==
  /\ tasks = <<>>
  /\ events = <<>>
  /\ emails = <<>>
  /\ now = 0
  /\ outbox = <<>>
  /\ last = [op |-> "none", id |-> 0, param |-> "n/a", confirmed |-> FALSE,
             pre |-> "absent", http |-> 0, type |-> "none", payload |-> NoPayload,
             hasSuccess |-> FALSE, success |-> FALSE, invoked |-> {}]
  /\ gtasks = <<>>
  /\ token \in BOOLEAN
  /\ fx = [name |-> "none", arguments |-> NoPayload, result |-> NoPayload, removed |-> {}]
  /\ memories = <<>>
  /\ inflight = <<>>
  /\ \E n \in {0, 2, FactEvery - 2, FactEvery - 1} :
       \E t \in {"None", "Trip plans"} :
         /\ n = 0 => t = "None"
         /\ InitConversation(History(n), t)

Next ==
  \/ route_create_task
  \/ route_update_task
  \/ route_complete_task
  \/ route_reopen_task
  \/ route_delete_task
  \/ route_create_event
  \/ route_update_event
  \/ route_delete_event
  \/ route_draft_email
  \/ route_update_draft
  \/ route_send_email
  \/ route_delete_email

Spec == Init /\ [][Next]_vars

NextDispatch ==
  \/ chat_function_call
  \/ google_callback
  \/ google_logout

SpecDispatch == Init /\ [][NextDispatch]_vars

NextCalendar ==
  \/ calendar_create_event

SpecCalendar == Init /\ [][NextCalendar]_vars

\* a calendar that already holds one or two events, one clock tick before the
\* bound, so that every create and every update is tried on every such calendar
Bookings ==
  {[title |-> "Slot", start_time |-> 0, end_time |-> 2],
   [title |-> "Slot", start_time |-> 1, end_time |-> 3],
   [title |-> "Slot", start_time |-> 2, end_time |-> 3]}

Booked(event, at) ==
  [title |-> event.title, start_time |-> event.start_time,
   end_time |-> event.end_time, updated_at |-> at]

InitReschedule ==
  /\ InitConversation(<<>>, "None")
  /\ tasks = <<>>
  /\ emails = <<>>
  /\ \E a \in Bookings, b \in Bookings :
       events \in {1 :> Booked(a, 1), (1 :> Booked(a, 1)) @@ (2 :> Booked(b, 2))}
  /\ now = MaxClock - 1
  /\ outbox = <<>>
  /\ last = [op |-> "none", id |-> 0, param |-> "n/a", confirmed |-> FALSE,
             pre |-> "absent", http |-> 0, type |-> "none", payload |-> NoPayload,
             hasSuccess |-> FALSE, success |-> FALSE, invoked |-> {}]
  /\ gtasks = <<>>
  /\ token = FALSE
  /\ fx = [name |-> "none", arguments |-> NoPayload, result |-> NoPayload, removed |-> {}]
  /\ memories = <<>>
  /\ inflight = <<>>

NextReschedule ==
  \/ calendar_create_event
  \/ calendar_update_event

SpecReschedule == InitReschedule /\ [][NextReschedule]_vars

\* a calendar of at most two events that start and end on half-hour marks
Marks == {h * SecondsPerHour + m * SecondsPerMinute : h \in Hours, m \in {0, HalfHour}}

Meetings ==
  {m \in {[title |-> "Slot", start_time |-> a, end_time |-> b] : a \in Marks, b \in Marks} :
     m.start_time < m.end_time}

InitSlot ==
  /\ InitConversation(<<>>, "None")
  /\ tasks = <<>>
  /\ emails = <<>>
  /\ \E a \in Meetings, b \in Meetings :
       events \in {<<>>, 1 :> Booked(a, 1), (1 :> Booked(a, 1)) @@ (2 :> Booked(b, 2))}
  /\ now = 2
  /\ outbox = <<>>
  /\ last = [op |-> "none", id |-> 0, param |-> "n/a", confirmed |-> FALSE,
             pre |-> "absent", http |-> 0, type |-> "none", payload |-> NoPayload,
             hasSuccess |-> FALSE, success |-> FALSE, invoked |-> {}]
  /\ gtasks = <<>>
  /\ token = FALSE
  /\ fx = [name |-> "none", arguments |-> NoPayload, result |-> NoPayload, removed |-> {}]
  /\ memories = <<>>
  /\ inflight = <<>>

NextSlot ==
  \/ calendar_next_slot

SpecSlot == InitSlot /\ [][NextSlot]_vars

\* the Message rows of one conversation, created one after the other
MessageRows ==
  UNION {[1..n -> {"user", "assistant"} \X {<<"a">>, <<"b">>}] : n \in 0..MaxMessages}

\* the context is loaded with a window of max_messages
load_context ==
  \E max_messages \in 0..MaxMessages :
    /\ last' = [op |-> "get_context_messages", id |-> Conversation.id,
                param |-> max_messages,
                confirmed |-> FALSE, pre |-> "absent", http |-> 0, type |-> "none",
                payload |-> [messages |-> get_context_messages(session, max_messages)],
                hasSuccess |-> FALSE, success |-> FALSE, invoked |-> {}]
    /\ UNCHANGED <<tasks, events, emails, now, outbox, gvars, turnvars, memvars>>

InitContext ==
  /\ InitStore
  /\ \E rows \in MessageRows :
       InitConversation([i \in 1..Len(rows) |->
                           [role |-> rows[i][1], content |-> rows[i][2], created_at |-> i]],
                        "None")

NextContext ==
  \/ load_context

SpecContext == InitContext /\ [][NextContext]_vars

\* two sessions storing facts side by side
InitMemory ==
  /\ tasks = <<>>
  /\ events = <<>>
  /\ emails = <<>>
  /\ now = 0
  /\ outbox = <<>>
  /\ last = [op |-> "none", id |-> 0, param |-> "n/a", confirmed |-> FALSE,
             pre |-> "absent", http |-> 0, type |-> "none", payload |-> NoPayload,
             hasSuccess |-> FALSE, success |-> FALSE, invoked |-> {}]
  /\ gtasks = <<>>
  /\ token = FALSE
  /\ fx = [name |-> "none", arguments |-> NoPayload, result |-> NoPayload, removed |-> {}]
  /\ InitConversation(<<>>, "None")
  /\ memories = <<>>
  /\ inflight = [r \in Requests |-> Idle]

NextMemory ==
  \/ \E r \in Requests : store_memory_select(r)
  \/ \E r \in Requests : store_memory_flush(r)
  \/ \E r \in Requests : store_memory_commit(r)
  \/ \E r \in Requests : store_memory_rollback(r)

SpecMemory == InitMemory /\ [][NextMemory]_vars

\* one stored email, not yet sent, and two send_email calls on it
InitSend ==
  /\ tasks = <<>>
  /\ events = <<>>
  /\ \E email_data \in EmailDraft, status \in {"draft", "pending_confirmation"} :
       emails = 1 :> [to_address |-> email_data.to_address, subject |-> email_data.subject,
                      body |-> email_data.body, status |-> status,
                      confirmation_required |-> TRUE, sent_at |-> NoTime,
                      updated_at |-> 1]
  /\ now = 1
  /\ outbox = <<>>
  /\ last = [op |-> "none", id |-> 0, param |-> "n/a", confirmed |-> FALSE,
             pre |-> "absent", http |-> 0, type |-> "none", payload |-> NoPayload,
             hasSuccess |-> FALSE, success |-> FALSE, invoked |-> {}]
  /\ gtasks = <<>>
  /\ token = FALSE
  /\ fx = [name |-> "none", arguments |-> NoPayload, result |-> NoPayload, removed |-> {}]
  /\ InitConversation(<<>>, "None")
  /\ memories = <<>>
  /\ inflight = [r \in Requests |-> Idle]

NextSend ==
  \/ \E r \in Requests : send_email_get(r)
  \/ \E r \in Requests : send_email_resume(r)

SpecSend == InitSend /\ [][NextSend]_vars

NextTurn ==
  \/ chat_stream
  \/ first_pass_line
  \/ first_pass_end
  \/ function_call
  \/ follow_up_line
  \/ follow_up_end
  \/ model_error
  \/ save
  \/ commit
  \/ cut_off

SpecTurn == InitTurn /\ [][NextTurn]_vars

\* ==================================================================== claims
tables == <<tasks, events, emails>>

\* the last call was a gated operation on a stored target that is not in the
\* operation's terminal state (delete_email is gated for sent emails only)
GatedCall(call) ==
  \/ call.op \in {"delete_task", "delete_event"} /\ call.pre # "absent"
  \/ call.op = "send_email" /\ call.pre \notin {"absent", "sent"}
  \/ call.op = "delete_email" /\ call.pre = "sent"

\* C1: a task row or an event row disappears only in a delete call that carried
\* confirmed=true, and _send_email_actual runs, an email is handed to the
\* transport or turns `sent` only in a send_email call that carried confirmed=true
C1_MutationsNeedConfirmation ==
  [][/\ \A id \in DOMAIN tasks :
          id \notin DOMAIN tasks' =>
            last'.op = "delete_task" /\ last'.id = id /\ last'.param = "true"
     /\ \A id \in DOMAIN events :
          id \notin DOMAIN events' =>
            last'.op = "delete_event" /\ last'.id = id /\ last'.param = "true"
     /\ (last'.invoked # {} \/ outbox' # outbox) =>
            last'.op = "send_email" /\ last'.param = "true" /\ last'.invoked = {last'.id}
     /\ \A id \in DOMAIN emails' :
          (emails'[id].status = "sent" /\ (id \in DOMAIN emails => emails[id].status # "sent")) =>
            last'.op = "send_email" /\ last'.id = id /\ last'.param = "true"
    ]_vars

\* C1 witness: a confirmed delete_task has just removed a stored task
C1_Witness ==
  /\ last.op = "delete_task" /\ last.param = "true" /\ last.pre # "absent"
  /\ last.type = "task_deleted" /\ last.id \notin DOMAIN tasks

\* C2 as claimed: a gated call without confirmed=true on a stored target leaves
\* every table as it was
C2_UnconfirmedChangesNothing ==
  [][(GatedCall(last') /\ ~last'.confirmed) => tables' = tables]_vars

\* C2 as amended: a gated call without confirmed=true removes no row and changes
\* no field, except that send_email on a not yet sent email sets that email's
\* status to pending_confirmation, and its updated_at when the status changed
C2_UnconfirmedOnlyMarksEmail ==
  [][(GatedCall(last') /\ ~last'.confirmed) =>
       /\ tasks' = tasks
       /\ events' = events
       /\ DOMAIN emails' = DOMAIN emails
       /\ \A id \in DOMAIN emails :
            IF last'.op = "send_email" /\ id = last'.id
            THEN emails'[id] =
                   IF emails[id].status = "pending_confirmation"
                   THEN emails[id]
                   ELSE [emails[id] EXCEPT !.status = "pending_confirmation",
                                           !.updated_at = now']
            ELSE emails'[id] = emails[id]
    ]_vars

\* C2 witness: an unconfirmed send_email has just marked a draft
C2_Witness ==
  /\ last.op = "send_email" /\ ~last.confirmed /\ last.pre = "draft"
  /\ emails[last.id].status = "pending_confirmation"
  /\ emails[last.id].updated_at = now

C4_DispatchPassesGate ==
  fx.removed # {} =>
    /\ "confirmed" \in DOMAIN fx.arguments
    /\ fx.arguments.confirmed

\* C5 as claimed: a confirmed gated call on a stored, non-terminal target (for an
\* email: one an unconfirmed call has marked) applies the mutation, once; on a
\* missing or already sent target it returns an error
C5_ConfirmedAppliesOnce ==
  (last.confirmed /\ last.op \in {"delete_task", "delete_event", "send_email"}) =>
    /\ (last.op = "delete_task" /\ last.pre # "absent") => last.id \notin DOMAIN tasks
    /\ (last.op = "delete_event" /\ last.pre # "absent") => last.id \notin DOMAIN events
    /\ (last.op = "send_email" /\ last.pre = "pending_confirmation") =>
         /\ emails[last.id].status = "sent"
         /\ Len(SelectSeq(outbox, LAMBDA e : e = last.id)) = 1
    /\ last.pre \in {"absent", "sent"} => (last.type = "error" /\ last.invoked = {})

\* C6 as claimed: a send, delete or complete call that names no stored row is
\* answered as not found (an error Action, or the route's 404), confirmed or not
C6_NotFoundFirst ==
  (last.op \in {"send_email", "delete_task", "delete_event", "delete_email", "complete_task"}
   /\ last.pre = "absent") =>
    (last.type = "error" \/ last.http = 404)

\* C7 as claimed: send_email on a sent email and complete_task on a completed
\* task change no persisted field
C7_TerminalUntouched ==
  [][((last'.op = "complete_task" /\ last'.pre = "completed")
      \/ (last'.op = "send_email" /\ last'.pre = "sent")) => tables' = tables]_vars

\* C8 as claimed: on every stored target each gated endpoint treats an omitted
\* `confirmed` as confirmed=false: same Action, same tables
C8_OmittedIsFalse ==
  /\ \A id \in DOMAIN tasks :
       /\ delete_task_endpoint(id, "omitted") = delete_task_endpoint(id, "false")
       /\ complete_task_endpoint(id, "omitted") = complete_task_endpoint(id, "false")
  /\ \A id \in DOMAIN events :
       delete_event_endpoint(id, "omitted") = delete_event_endpoint(id, "false")
  /\ \A id \in DOMAIN emails :
       /\ send_email_endpoint(id, "omitted") = send_email_endpoint(id, "false")
       /\ emails[id].status = "sent" =>
            delete_email_endpoint(id, "omitted") = delete_email_endpoint(id, "false")

\* C9 as claimed: draft_email stores status draft; an unconfirmed send_email marks
\* the draft pending_confirmation without invoking the actual send; a confirmed
\* send_email on the marked email leaves it sent, stamped and no longer awaiting
\* confirmation
C9_SendLifecycle ==
  /\ last.op = "draft_email" => emails[last.id].status = "draft"
  /\ (last.op = "send_email" /\ ~last.confirmed /\ last.pre = "draft") =>
       (emails[last.id].status = "pending_confirmation" /\ last.invoked = {})
  /\ (last.op = "send_email" /\ last.confirmed /\ last.pre = "pending_confirmation") =>
       /\ emails[last.id].status = "sent"
       /\ emails[last.id].sent_at # NoTime
       /\ ~emails[last.id].confirmation_required

\* C10: repeating an unconfirmed gated call (or an unconfirmed complete_task) on
\* the same target right after the first changes no table and is answered with
\* the same kind of Action
C10_UnconfirmedIdempotent ==
  [][(/\ GatedCall(last') \/ (last'.op = "complete_task" /\ last'.pre # "absent")
      /\ ~last'.confirmed
      /\ last.op = last'.op /\ last.id = last'.id /\ ~last.confirmed) =>
       (tables' = tables /\ last'.type = last.type /\ last'.http = last.http)]_vars

\* C10 witness: an unconfirmed send_email repeated on an already marked email
C10_Witness ==
  /\ last.op = "send_email" /\ ~last.confirmed /\ last.pre = "pending_confirmation"
  /\ last.type = "confirmation_required"
  /\ emails[last.id].status = "pending_confirmation"


\* ------------------------------------------------------- the streamed turn
IsTerminal(event) == event.type \in {"done", "error"}
IsChunk(event) == event.type = "chunk"

StreamOpen == pc \in {"first_pass", "execute", "follow_up", "save", "commit"}

UserMessage == [role |-> "user", content |-> Request.message]

Holds(messages, m) == \E i \in 1..Len(messages) : messages[i] = m

RECURSIVE Concat(_)
Concat(chunks) ==
  IF chunks = <<>> THEN <<>>
  ELSE Concat(SubSeq(chunks, 1, Len(chunks) - 1)) \o chunks[Len(chunks)].content

C12_ExceptionsBecomeError ==
  (pc \in {"closed", "failed"} /\ failure \notin {"", "extract_and_store_facts"})
    => /\ sse # <<>>
       /\ sse[Len(sse)].type = "error"
       /\ Len(SelectSeq(sse, IsTerminal)) = 1

\* C13: each function_result event is immediately preceded by a function_start
\* event of the same turn with the same name.
C13_ResultFollowsStart ==
  \A i \in 1..Len(sse) :
    sse[i].type = "function_result"
      => /\ i > 1
         /\ sse[i - 1].type = "function_start"
         /\ sse[i - 1].name = sse[i].name

\* a function_result sent after text, for a call the dispatcher answered
C13_Witness ==
  \E i \in 3..Len(sse) :
    /\ sse[i].type = "function_result"
    /\ sse[i - 2].type = "chunk"
    /\ dispatched # <<>>

\* the turn state machine: start, chunks, optionally function_start,
\* function_result and chunks, optionally title_generated, then done or error
TurnStep(state, event) ==
  IF state = "INIT" /\ event.type = "start"
  THEN IF event.conversation_id = Conversation.id THEN "TEXT" ELSE "REJECT"
  ELSE IF state = "TEXT" /\ event.type = "chunk" THEN "TEXT"
  ELSE IF state = "TEXT" /\ event.type = "function_start" THEN "FUNCTION_EXECUTING"
  ELSE IF state = "FUNCTION_EXECUTING" /\ event.type = "function_result" THEN "FUNCTION_RESULT"
  ELSE IF state = "FUNCTION_RESULT" /\ event.type = "chunk" THEN "FUNCTION_RESULT"
  ELSE IF state \in {"TEXT", "FUNCTION_RESULT"} /\ event.type = "title_generated" THEN "TITLED"
  ELSE IF state \in {"TEXT", "FUNCTION_RESULT", "TITLED"} /\ IsTerminal(event) THEN "END"
  ELSE "REJECT"

RECURSIVE TurnState(_)
TurnState(stream) ==
  IF stream = <<>> THEN "INIT"
  ELSE TurnStep(TurnState(SubSeq(stream, 1, Len(stream) - 1)), stream[Len(stream)])

FirstCall(lines) ==
  LET calls == SelectSeq(lines, IsCallLine) IN
  [name |-> calls[1].name, arguments |-> json_loads(calls[2].delta \o calls[3].delta).value]

\* C15: the dispatcher is invoked at most once in a turn, and the call it
\* services is the first complete function call of the model's output, with that
\* call's name and that call's own arguments.
C15_FirstCallServiced ==
  /\ Len(dispatched) <= 1
  /\ dispatched # <<>> => dispatched[1] = FirstCall(wire)

\* C16: the user message is persisted before the model is invoked, so a turn
\* that ends with error, or is cut off after the model call started, still has
\* the user message among the conversation's stored messages.
C16_UserMessageKept ==
  /\ StreamOpen => Holds(session, UserMessage)
  /\ (pc = "closed" /\ sse[Len(sse)].type = "error") => Holds(durable, UserMessage)
  /\ pc = "cut_off" => Holds(durable, UserMessage)

\* the text deltas the model service passed on, first pass then follow-up
HasText(line) == line.delta # <<>>
TextYielded == SelectSeq(SelectSeq(wire, IsText) \o follow_up, HasText)

C18_UnknownNameEnvelope ==
  (fx.name # "none" /\ fx.name \notin Registry)
    => /\ "success" \in DOMAIN fx.result
       /\ fx.result.success = FALSE
       /\ "error" \in DOMAIN fx.result

\* C19: execute never raises, and for a registered name a capability that fails
\* (collaborator exception, unexpected or missing argument) yields an envelope
\* with success false and an error string, while every other result has success
\* true.
C19_AlwaysEnvelope ==
  (fx.name \in Registry)
    => /\ "success" \in DOMAIN fx.result
       /\ fx.result.success = FALSE <=> "error" \in DOMAIN fx.result


\* ------------------------------------------------------ conflict detection
\* stored event a is reported as a conflict of the interval of stored event b
conflict(a, b) == a \in check_conflicts(events[b].start_time, events[b].end_time, 0)

\* C20: the overlap predicate of the conflict detector is symmetric for all
\* events A and B, holds between an event with start < end and itself, and does
\* not hold between two events that only touch (A.end = B.start).
C20_ConflictSymmetric ==
  \A a \in DOMAIN events :
    /\ events[a].start_time < events[a].end_time => conflict(a, a)
    /\ \A b \in DOMAIN events :
         /\ conflict(a, b) <=> conflict(b, a)
         /\ events[a].end_time = events[b].start_time => ~conflict(a, b) /\ ~conflict(b, a)

\* a second event was created over the later part of the first, and the first
\* was reported as its conflict
C20_Witness ==
  /\ DOMAIN events = {1, 2}
  /\ events[1].start_time < events[2].start_time
  /\ events[2].start_time < events[1].end_time
  /\ events[1].end_time < events[2].end_time
  /\ last.op = "create_event"
  /\ last.payload.conflicts = {1}


\* the stored events other than `self` that overlap [start_time, end_time)
Overlapping(table, start_time, end_time, self) ==
  {id \in (DOMAIN table) \ {self} :
     table[id].start_time < end_time /\ table[id].end_time > start_time}

\* the step created an event: it is stored as given, every event stored before
\* is unchanged, and the conflicts returned are the overlapping ones
CreatedAdvisory ==
  LET id == last'.id IN
  /\ id \notin DOMAIN events
  /\ DOMAIN events' = (DOMAIN events) \cup {id}
  /\ \A k \in DOMAIN events : events'[k] = events[k]
  /\ last'.payload.event = EventResponse(id, events'[id])
  /\ last'.payload.conflicts
       = Overlapping(events, events'[id].start_time, events'[id].end_time, id)

\* the step updated a stored event: every field the request set is applied, the
\* other fields and the other events are unchanged
UpdateApplied ==
  LET id == last'.id
      body == last'.param IN
  /\ DOMAIN events' = DOMAIN events
  /\ \A k \in (DOMAIN events) \ {id} : events'[k] = events[k]
  /\ \A f \in {"title", "start_time", "end_time"} :
       events'[id][f] = IF f \in DOMAIN body THEN body[f] ELSE events[id][f]
  /\ last'.payload.event = EventResponse(id, events'[id])
  /\ id \notin last'.payload.conflicts

UpdateConflictsExact ==
  last'.payload.conflicts
    = Overlapping(events, events'[last'.id].start_time, events'[last'.id].end_time, last'.id)

SetsTimes(body) == "start_time" \in DOMAIN body \/ "end_time" \in DOMAIN body

\* C21 as stated: conflicts never block create_event or update_event, every
\* other stored event is unchanged, and the conflicts returned are exactly the
\* other stored events that overlap the new interval.
C21_ConflictsAdvisoryExact ==
  [][(now' # now)
       => IF last'.op = "create_event" THEN CreatedAdvisory
          ELSE UpdateApplied /\ UpdateConflictsExact]_vars

\* C21 amended: as above, except that an update which sets neither start_time
\* nor end_time returns no conflicts at all.
C21_ConflictsAdvisory ==
  [][(now' # now)
       => IF last'.op = "create_event" THEN CreatedAdvisory
          ELSE /\ UpdateApplied
               /\ IF SetsTimes(last'.param) THEN UpdateConflictsExact
                  ELSE last'.payload.conflicts = {}]_vars

\* an event was moved onto another one: the move is stored and the other event
\* is returned as its conflict
C21_Witness ==
  /\ last.op = "update_event"
  /\ last.http = 200
  /\ "start_time" \in DOMAIN last.param
  /\ events[last.id].start_time = last.param.start_time
  /\ last.payload.conflicts # {}
  /\ last.id \notin last.payload.conflicts


\* ------------------------------------------------------ next available slot
Searched == last.op = "get_next_available_slot"

Slot == last.payload.next_available_slot

\* C22: the slot returned is free: [slot, slot + duration) overlaps no stored
\* event, the events that began before start_from and are still running
\* included.
C22_SlotIsFree ==
  Searched
    => \A id \in DOMAIN events :
         ~ /\ events[id].start_time < Slot + last.param.duration_minutes * SecondsPerMinute
           /\ events[id].end_time > Slot

\* C28: start_from is rounded up to the next half-hour mark r: r >= start_from,
\* r is on minute 0 or 30 with zero seconds, r - start_from is under 30 minutes,
\* minutes 31-59 give :00 of the following hour, and r is returned when no
\* stored event starts at or after r.
C28_RoundedToHalfHour ==
  Searched
    => LET start_from == last.param.start_from
           r == round_up(start_from) IN
       /\ r >= start_from
       /\ minute(r) \in {0, HalfHour}
       /\ second(r) = 0
       /\ r - start_from < HalfHour * SecondsPerMinute
       /\ minute(start_from) > HalfHour
            => r = (start_from \div SecondsPerHour + 1) * SecondsPerHour
       /\ (\A id \in DOMAIN events : events[id].start_time < r) => Slot = r


\* ------------------------------------------------------------ context window
\* C23: for a window k >= 1 over the stored messages m1..mn in creation order,
\* get_context_messages returns the last min(n, k) of them in the same order,
\* each as {role, content}.
C23_ContextIsSuffix ==
  (last.op = "get_context_messages" /\ last.param >= 1)
    => LET k == last.param
           n == Len(session)
           c == IF n < k THEN n ELSE k
           returned == last.payload.messages IN
       /\ Len(returned) = c
       /\ Len(returned) <= k
       /\ \A i \in 1..c :
            returned[i] = [role |-> session[n - c + i].role,
                           content |-> session[n - c + i].content]

\* a window shorter than the conversation was taken
C23_Witness ==
  /\ last.op = "get_context_messages"
  /\ last.param >= 1
  /\ Len(session) > last.param
  /\ Len(last.payload.messages) = last.param
  /\ session[1].content # session[Len(session)].content


\* ------------------------------------------------------- the end of the turn
\* the messages of the turn: those that are not of the history the turn began with
IsOfTurn(m) == m.content # <<"h">>

IsAssistantOfTurn(m) == m.role = "assistant" /\ IsOfTurn(m)

Ended == pc = "closed" /\ sse # <<>>

EndedWith(type) == Ended /\ sse[Len(sse)].type = type

\* C24: a turn that ends in done with non-empty content has appended exactly one
\* assistant message, whose content is done.content; a turn whose accumulated
\* response is empty has appended none.
C24_AssistantIffResponse ==
  /\ (EndedWith("done") /\ sse[Len(sse)].content # <<>>)
       => SelectSeq(durable, IsAssistantOfTurn)
            = <<[role |-> "assistant", content |-> sse[Len(sse)].content]>>
  /\ (Ended /\ full_response = <<>>) => SelectSeq(durable, IsAssistantOfTurn) = <<>>

\* a turn with a function call and an answer has ended in done and stored the
\* answer
C24_Witness ==
  /\ EndedWith("done")
  /\ dispatched # <<>>
  /\ sse[Len(sse)].content # <<>>
  /\ durable[Len(durable)] = [role |-> "assistant", content |-> full_response]


\* the follow-up model call of a turn that had dispatched a function failed
FollowUpFailed == Ended /\ failure = "model" /\ dispatched # <<>>

\* the dispatched function reported the task it created
CreatedTask ==
  /\ function_result.name = "create_task"
  /\ "task_id" \in DOMAIN function_result.result

\* C25: when the follow-up model call fails after a function was executed, the
\* turn ends with error, what the function did stays done, and the stored
\* transcript gained the user message only.
C25_FollowUpFailureKeepsEffect ==
  FollowUpFailed
    => /\ sse[Len(sse)].type = "error"
       /\ CreatedTask => function_result.result.task_id \in DOMAIN gtasks
       /\ SelectSeq(durable, IsOfTurn) = <<UserMessage>>

\* create_task ran with credentials, then the follow-up failed after a chunk
C25_Witness ==
  /\ FollowUpFailed
  /\ CreatedTask
  /\ gtasks # <<>>
  /\ full_response # <<>>


TitleSet == {"Generated", "Yeni Sohbet"}

\* C26: a turn with a non-empty response on an untitled conversation sets the
\* title (the generated one, or the placeholder when generation fails) and
\* emits title_generated for it before done; a failed generation never ends the
\* turn with error; a conversation that has a title is never retitled.
C26_TitleBestEffort ==
  [][/\ title # "None" => title' = title
     /\ (pc = "save" /\ title = "None" /\ pc' = "commit")
          => /\ title' \in TitleSet
             /\ sse' = Append(sse, [type |-> "title_generated", title |-> title'])
     /\ (pc = "save" /\ failure' = "generate_conversation_title")
          => /\ pc' = "commit"
             /\ title' = "Yeni Sohbet"
             /\ ~ IsTerminal(sse'[Len(sse')])
     /\ (pc = "commit" /\ sse'[Len(sse')].type = "done")
          => /\ title' # "None"
             /\ (title' \in TitleSet
                   => sse[Len(sse)] = [type |-> "title_generated", title |-> title'])]_vars

\* the title call failed on an untitled conversation; the turn ended in done with
\* the placeholder announced
C26_Witness ==
  /\ EndedWith("done")
  /\ failure = "generate_conversation_title"
  /\ title = "Yeni Sohbet"
  /\ sse[Len(sse) - 1] = [type |-> "title_generated", title |-> "Yeni Sohbet"]


\* C27: whenever a turn brings the conversation's stored message count to a
\* positive multiple of 10, turns that stored the user message only included,
\* extract_and_store_facts is invoked; and a failed extraction leaves the turn
\* ending with done.
C27_EveryTenthExtracts ==
  /\ (/\ pc \in {"closed", "cut_off"}
      /\ SelectSeq(durable, IsOfTurn) # <<>>
      /\ Len(durable) % FactEvery = 0)
       => facts \in {"extracted", "failed"}
  /\ (pc = "closed" /\ facts = "failed") => EndedWith("done")


\* ------------------------------------------------------------------ memory
\* C29: after any sequence of store_memory calls, those of requests running side
\* by side included, there is at most one Memory row per (category, key), and it
\* holds the value and importance of the last store for that pair.
C29_OneRowPerKey ==
  /\ \A i \in DOMAIN memories, j \in DOMAIN memories :
       (memories[i].category = memories[j].category /\ memories[i].key = memories[j].key)
         => i = j
  /\ last.op = "store_memory"
       => \A id \in select_memory(last.param.category, last.param.key) :
            /\ memories[id].value = last.param.value
            /\ memories[id].importance = last.param.importance

\* ------------------------------------------------------- concurrent sends
Answered(r) == inflight[r].pc \in {"responded", "failed"}

\* C30: two send_email calls on one email, interleaved in any way: two confirmed
\* calls transmit the email at most once and leave it sent; an unconfirmed call
\* beside a confirmed one never leaves a transmitted email pending_confirmation.
C30_ConcurrentSend ==
  /\ Len(outbox) <= 1
  /\ (\A r \in Requests : Answered(r) /\ inflight[r].confirmed)
       => emails[1].status = "sent"
  /\ ((\A r \in Requests : Answered(r)) /\ outbox # <<>>)
       => emails[1].status # "pending_confirmation"

====
